---------------------------- MODULE Spec2Model ----------------------------
(***************************************************************************)
(* Model of the cluster-autoscaler-operator reconciliation handler         *)
(* (pkg/autoscaler/handler.go) and of the availability predicate exercised *)
(* by TestAvailableAndUpdated.                                             *)
(*                                                                         *)
(* The object store is a set of Deployment records; its three primitive    *)
(* calls (create, get, update) are modelled at their call sites.  One      *)
(* Handle invocation is one atomic action: the component has no internal   *)
(* concurrency and runs create / get / update synchronously.               *)
(***************************************************************************)
EXTENDS Integers, Sequences, FiniteSets, TLC

VARIABLES
    store,          \* the object store: the set of stored Deployment objects
    cas,            \* the ClusterAutoscaler resources that currently exist
    last,           \* record of the Handle invocation that just returned; empty
                    \* once anything else has written to the store or a resource
    operatorErrors, \* value of the prometheus counter Metrics.operatorErrors
    config,         \* process-wide Config read by AvailableAndUpdated
    avail,          \* result of the most recent AvailableAndUpdated call
    built,          \* what the Builder returned for the resource it was last applied to
    procs,          \* concurrent Handle invocations: each one's position and locals
    versions        \* the store's resourceVersion of each stored key: {<<key, version>>}

vars == <<store, cas, last, operatorErrors, config, avail, built, procs, versions>>

----------------------------------------------------------------------------
(* Bounds of the model *)

\* stored replica counts an external writer may set range over 1..MaxReplicas
MaxReplicas == 2

\* available-replica counts reported in a workload's status range over 0..MaxAvailable
MaxAvailable == 1

----------------------------------------------------------------------------
(* Go values *)

\* a nil error
Nil == "nil"

\* optional (pointer) fields: None is a nil pointer, Some(v) points to v
None == <<>>
Some(v) == <<v>>
IsSet(p) == p # None
Val(p) == p[1]

\* a Go value as reflect sees it: its dynamic type and its contents
Box(t, v) == [type |-> t, val |-> v]

\* reflect.DeepEqual: values of distinct types are never deeply equal;
\* pointers of the same type are equal when their pointees are.
DeepEqual(x, y) == x.type = y.type /\ x.val = y.val

\* strings.HasPrefix
HasPrefix(str, pre) == Len(str) >= Len(pre) /\ SubSeq(str, 1, Len(pre)) = pre

----------------------------------------------------------------------------
(* Constants of handler.go *)

caImage == "quay.io/bison/cluster-autoscaler:a554b4f5"
criticalPod == "scheduler.alpha.kubernetes.io/critical-pod"
caServiceAccount == "cluster-autoscaler"

\* process-wide settings the Builder reads
CloudProvider == "testProvider"
WatchNamespace == "test"

----------------------------------------------------------------------------
(* The configuration resources of the model *)

CANames == {"a", "b"}
Namespaces == {"test", "other"}
ReleaseVersions == {"test-1", "test-2"}

\* ClusterAutoscalerSpec with every optional field unset
EmptySpec ==
    [ maxPodGracePeriod    |-> None,
      podPriorityThreshold |-> None,
      resourceLimits       |-> None,
      scaleDown            |-> None ]

\* the spec NewClusterAutoscaler builds in the tests
TestSpec ==
    [ maxPodGracePeriod    |-> Some(60),
      podPriorityThreshold |-> Some(-10),
      resourceLimits       |-> Some([ maxNodesTotal |-> Some(100),
                                      cores  |-> Some([min |-> 16, max |-> 32]),
                                      memory |-> Some([min |-> 32, max |-> 64]),
                                      gpus   |-> << [type |-> "nvidia.com/gpu",
                                                     min |-> 4, max |-> 8] >> ]),
      scaleDown            |-> Some([ enabled       |-> TRUE,
                                      delayAfterAdd |-> Some("60s"),
                                      unneededTime  |-> Some("10s") ]) ]

\* TestSpec with one field changed
TestSpecChanged == [TestSpec EXCEPT !.maxPodGracePeriod = Some(61)]

CASpecs == {EmptySpec, TestSpec, TestSpecChanged}

NewClusterAutoscaler(name, ns, spec) ==
    [ kind       |-> "ClusterAutoscaler",
      apiVersion |-> "autoscaling.openshift.io/v1alpha1",
      name       |-> name,
      namespace  |-> ns,
      uid        |-> "uid-" \o name,
      spec       |-> spec ]


----------------------------------------------------------------------------
(* Desired-State Builder *)

\* "--flag=value"
ArgValue(flag, value) == flag \o "=" \o value

\* "min:max" of a ResourceRange
RangeString(r) == ToString(r.min) \o ":" \o ToString(r.max)

RECURSIVE GPUArgs(_)
GPUArgs(gpus) ==
    IF gpus = <<>> THEN <<>>
    ELSE << ArgValue("--gpu-total",
                     Head(gpus).type \o ":" \o RangeString(Head(gpus))) >>
         \o GPUArgs(Tail(gpus))

\* flags of the ResourceLimits block: one flag per field that is set
ResourceArgs(rl) ==
    (IF IsSet(rl.maxNodesTotal)
        THEN << ArgValue("--max-nodes-total", ToString(Val(rl.maxNodesTotal))) >>
        ELSE <<>>)
    \o (IF IsSet(rl.cores)
        THEN << ArgValue("--cores-total", RangeString(Val(rl.cores))) >>
        ELSE <<>>)
    \o (IF IsSet(rl.memory)
        THEN << ArgValue("--memory-total", RangeString(Val(rl.memory))) >>
        ELSE <<>>)
    \o GPUArgs(rl.gpus)

\* flags of the ScaleDown block: one flag per field that is set
ScaleDownArgs(sd) ==
    (IF IsSet(sd.delayAfterAdd)
        THEN << ArgValue("--scale-down-delay-after-add", Val(sd.delayAfterAdd)) >>
        ELSE <<>>)
    \o (IF IsSet(sd.unneededTime)
        THEN << ArgValue("--scale-down-unneeded-time", Val(sd.unneededTime)) >>
        ELSE <<>>)

\* the command-line arguments of the autoscaler for one ClusterAutoscaler
AutoscalerArgs(ca) ==
    << ArgValue("--namespace", WatchNamespace),
       ArgValue("--cloud-provider", CloudProvider) >>
    \o (IF IsSet(ca.spec.maxPodGracePeriod)
        THEN << ArgValue("--max-graceful-termination-sec",
                         ToString(Val(ca.spec.maxPodGracePeriod))) >>
        ELSE <<>>)
    \o (IF IsSet(ca.spec.podPriorityThreshold)
        THEN << ArgValue("--expendable-pods-priority-cutoff",
                         ToString(Val(ca.spec.podPriorityThreshold))) >>
        ELSE <<>>)
    \o (IF IsSet(ca.spec.resourceLimits)
        THEN ResourceArgs(Val(ca.spec.resourceLimits)) ELSE <<>>)
    \o (IF IsSet(ca.spec.scaleDown)
        THEN ScaleDownArgs(Val(ca.spec.scaleDown)) ELSE <<>>)

\* mutant: the container is built without the argument list
autoscalerPodSpec_NoArgs(ca) ==
    [ serviceAccountName |-> caServiceAccount,
      containers  |-> << [ name    |-> "cluster-autoscaler",
                           image   |-> caImage,
                           command |-> << "/cluster-autoscaler" >>,
                           args    |-> <<>> ] >>,
      tolerations |-> << [ key |-> "CriticalAddonsOnly", operator |-> "Exists" ] >> ]

\* autoscalerPodSpec: the pod spec of the autoscaler workload
autoscalerPodSpec(ca) ==
    [ serviceAccountName |-> caServiceAccount,
      containers  |-> << [ name    |-> "cluster-autoscaler",
                           image   |-> caImage,
                           command |-> << "/cluster-autoscaler" >>,
                           args    |-> AutoscalerArgs(ca) ] >>,
      tolerations |-> << [ key |-> "CriticalAddonsOnly", operator |-> "Exists" ] >> ]

\* mutant: the reference is not marked as controller
asOwner_NoController(ca) ==
    [ apiVersion |-> ca.apiVersion,
      kind       |-> ca.kind,
      name       |-> ca.name,
      uid        |-> ca.uid,
      controller |-> None ]

\* asOwner: an OwnerReference naming the ClusterAutoscaler
asOwner(ca) ==
    [ apiVersion |-> ca.apiVersion,
      kind       |-> ca.kind,
      name       |-> ca.name,
      uid        |-> ca.uid,
      controller |-> Some(TRUE) ]

\* addOwnerRefToObject: appends the reference to the object's owner references
addOwnerRefToObject(obj, ownerRef) ==
    [obj EXCEPT !.ownerReferences = Append(obj.ownerReferences, ownerRef)]

\* mutant: the resource's name is left out of the derived name
DeploymentName_NoName(name) == "cluster-autoscaler"

\* mutant: the fixed prefix of the derived name is lost
DeploymentName_NoPrefix(name) == name

\* the workload's name, derived from the resource's name
DeploymentName(name) == "cluster-autoscaler-" \o name

Labels(ca) == [ clusterAutoscaler |-> ca.name, app |-> "cluster-autoscaler" ]

\* autoscalerDeployment: the Deployment object built for one ClusterAutoscaler.
\* annotations and availableReplicas are the object's metadata annotation
\* release.openshift.io/version and status, which the Builder leaves unset.
autoscalerDeployment(ca) ==
    addOwnerRefToObject(
        [ apiVersion        |-> "apps/v1",
          kind              |-> "Deployment",
          name              |-> DeploymentName(ca.name),
          namespace         |-> ca.namespace,
          releaseVersion    |-> None,
          ownerReferences   |-> <<>>,
          replicas          |-> Some(1),
          selector          |-> Labels(ca),
          template          |-> [ labels      |-> Labels(ca),
                                  annotations |-> << criticalPod >>,
                                  spec        |-> autoscalerPodSpec(ca) ],
          availableReplicas |-> 0 ],
        asOwner(ca))

----------------------------------------------------------------------------
(* The object store, as the handler's three calls see it *)

\* the addressing key of an object: kind + API version + namespace + name
Key(obj) == <<obj.kind, obj.apiVersion, obj.namespace, obj.name>>

Stored(st, obj) == {d \in st : Key(d) = Key(obj)}

IsAlreadyExists(err) == err = "AlreadyExists"
IsNotFound(err) == err = "NotFound"

\* sdk.Create(dep): fails when the store is unreachable (fail) or the key is
\* taken; otherwise the object is added
sdkCreate(st, dep, fail) ==
    IF fail THEN [err |-> "Internal", store |-> st]
    ELSE IF Stored(st, dep) # {} THEN [err |-> "AlreadyExists", store |-> st]
    ELSE [err |-> Nil, store |-> st \cup {dep}]

\* sdk.Get(dep): fills dep from the stored object with dep's key; on failure
\* dep is left as it was
sdkGet(st, dep, fail) ==
    IF fail THEN [err |-> "Internal", obj |-> dep]
    ELSE IF Stored(st, dep) = {} THEN [err |-> "NotFound", obj |-> dep]
    ELSE [err |-> Nil, obj |-> CHOOSE d \in Stored(st, dep) : TRUE]

\* sdk.Update(dep): replaces the stored object with dep's key
sdkUpdate(st, dep, fail) ==
    IF fail THEN [err |-> "Internal", store |-> st]
    ELSE IF Stored(st, dep) = {} THEN [err |-> "NotFound", store |-> st]
    ELSE [err |-> Nil, store |-> (st \ Stored(st, dep)) \cup {dep}]

\* one store call as the call log records it
Call(op, err) == [op |-> op, err |-> err]

----------------------------------------------------------------------------
(* The handler *)

\* mutant: the error of the get is not looked at
GetFailed_Ignored(err) == FALSE

\* handler.go:68  if err != nil  (after sdk.Get)
GetFailed(err) == err # Nil

\* mutant: the result of the comparison is not negated
SpecDiffers_NotNegated(dep, podSpec) ==
    DeepEqual(Box("PodSpec", dep.template.spec), Box("*PodSpec", podSpec))

\* handler.go:73  !reflect.DeepEqual(dep.Spec.Template.Spec, podSpec):
\* the first argument is a corev1.PodSpec value, the second the *corev1.PodSpec
\* that autoscalerPodSpec returns
SpecDiffers(dep, podSpec) ==
    ~DeepEqual(Box("PodSpec", dep.template.spec), Box("*PodSpec", podSpec))

\* mutant: the freshly built replica count is written back with the pod spec
SetPodSpec_WithReplicas(dep, podSpec) ==
    [dep EXCEPT !.template.spec = podSpec, !.replicas = Some(1)]

\* mutant: the built pod spec is not assigned before the update
SetPodSpec_Dropped(dep, podSpec) == dep

\* handler.go:74  dep.Spec.Template.Spec = *podSpec
SetPodSpec(dep, podSpec) == [dep EXCEPT !.template.spec = podSpec]

\* mutant: the error of the update is not looked at
UpdateFailed_Ignored(err) == FALSE

\* mutant: the test of the update's error is inverted
UpdateFailed_Inverted(err) == err = Nil

\* handler.go:76  if err != nil  (after sdk.Update)
UpdateFailed(err) == err # Nil

\* updateAutoscaler: the update path.  fail: the call the store fails, if any.
\* Returns the error, the store afterwards, the calls issued, whether the
\* fetched pod template spec was structurally equal to the built one, and the
\* object the get filled in.
updateAutoscaler(ca, st, fail) ==
    LET dep0    == autoscalerDeployment(ca)
        got     == sdkGet(st, dep0, fail = "get")
        dep     == got.obj
        podSpec == autoscalerPodSpec(ca)
        same    == got.err = Nil /\ dep.template.spec = podSpec
        upd     == sdkUpdate(st, SetPodSpec(dep, podSpec), fail = "update")
    IN  IF GetFailed(got.err)
        THEN [ err     |-> "failed to get autoscaler deployment",
               store   |-> st,
               calls   |-> << Call("get", got.err) >>,
               same    |-> same,
               fetched |-> None ]
        ELSE IF SpecDiffers(dep, podSpec)
        THEN [ err     |-> IF UpdateFailed(upd.err)
                           THEN "failed to update autoscaler deployment" ELSE Nil,
               store   |-> upd.store,
               calls   |-> << Call("get", got.err), Call("update", upd.err) >>,
               same    |-> same,
               fetched |-> Some(dep) ]
        ELSE [ err     |-> Nil,
               store   |-> st,
               calls   |-> << Call("get", got.err) >>,
               same    |-> same,
               fetched |-> Some(dep) ]

\* mutant: delete events are reconciled like any other
IgnoreEvent_Never(deleted) == FALSE

\* handler.go:45  if event.Deleted
IgnoreEvent(deleted) == deleted

\* mutant: the negation of IsAlreadyExists is lost
CreateFailed_NegationLost(err) == err # Nil /\ IsAlreadyExists(err)

\* handler.go:51  err != nil && !errors.IsAlreadyExists(err)
CreateFailed(err) == err # Nil /\ ~IsAlreadyExists(err)

\* mutant: the update path is taken whatever create answered
TakeUpdatePath_Always(err) == TRUE

\* handler.go:55  errors.IsAlreadyExists(err)
TakeUpdatePath(err) == IsAlreadyExists(err)

\* Handler.Handle for an event carrying ClusterAutoscaler ca and the flag
\* deleted.  fail: the call the store fails, if any (Handle stops at the first
\* failed call, so one failure per invocation covers every outcome).
Handle(ca, deleted, st, fail) ==
    LET dep == autoscalerDeployment(ca)
        cr  == sdkCreate(st, dep, fail = "create")
        up  == updateAutoscaler(ca, cr.store, fail)
    IN  IF IgnoreEvent(deleted)
        THEN [ err |-> Nil, store |-> st, calls |-> <<>>, same |-> FALSE,
               fetched |-> None ]
        ELSE IF CreateFailed(cr.err)
        THEN [ err     |-> "failed to create autoscaler deployment",
               store   |-> cr.store,
               calls   |-> << Call("create", cr.err) >>,
               same    |-> FALSE,
               fetched |-> None ]
        ELSE IF TakeUpdatePath(cr.err)
        THEN [ err     |-> up.err,
               store   |-> up.store,
               calls   |-> << Call("create", cr.err) >> \o up.calls,
               same    |-> up.same,
               fetched |-> up.fetched ]
        ELSE [ err     |-> Nil,
               store   |-> cr.store,
               calls   |-> << Call("create", cr.err) >>,
               same    |-> FALSE,
               fetched |-> None ]

----------------------------------------------------------------------------
(* The reconciliation state machine *)

\* process-wide Config of the availability predicate
NewConfig(name, ns, version) ==
    [ name |-> name, namespace |-> ns, releaseVersion |-> version ]

\* RegisterOperatorMetrics: a fresh counter
RegisterOperatorMetrics == 0

Init ==
    /\ store = {}
    /\ cas = { NewClusterAutoscaler(n, WatchNamespace, EmptySpec) : n \in CANames }
    /\ last = <<>>
    /\ operatorErrors = RegisterOperatorMetrics
    /\ config = NewConfig("a", WatchNamespace, "test-1")
    /\ avail = <<>>
    /\ built = <<>>
    /\ procs = <<>>
    /\ versions = {}

\* The framework delivers an event for ca; Handle runs to completion.
HandleEvent(ca, deleted, fail) ==
    LET r == Handle(ca, deleted, store, fail)
    IN  /\ deleted => fail = "none"
        /\ store' = r.store
        /\ last' = << [ ca      |-> ca,
                        deleted |-> deleted,
                        err     |-> r.err,
                        calls   |-> r.calls,
                        same    |-> r.same,
                        fetched |-> r.fetched ] >>
        /\ UNCHANGED <<cas, operatorErrors, config, avail, built, procs, versions>>

\* A user changes the spec of a ClusterAutoscaler.
UpdateCA(ca, spec) ==
    /\ spec # ca.spec
    /\ cas' = (cas \ {ca}) \cup {[ca EXCEPT !.spec = spec]}
    /\ last' = <<>>
    /\ UNCHANGED <<store, operatorErrors, config, avail, built, procs, versions>>

\* Another writer alters the pod template of a stored workload.
ExternalSetImage(d, image) ==
    /\ d.template.spec.containers[1].image # image
    /\ store' = (store \ {d})
                  \cup {[d EXCEPT !.template.spec.containers[1].image = image]}
    /\ last' = <<>>
    /\ UNCHANGED <<cas, operatorErrors, config, avail, built, procs, versions>>

\* Another writer scales a stored workload.
ExternalScale(d, n) ==
    /\ d.replicas # Some(n)
    /\ store' = (store \ {d}) \cup {[d EXCEPT !.replicas = Some(n)]}
    /\ last' = <<>>
    /\ UNCHANGED <<cas, operatorErrors, config, avail, built, procs, versions>>

\* The store's garbage collector (or another writer) deletes a workload.
ExternalDelete(d) ==
    /\ store' = store \ {d}
    /\ last' = <<>>
    /\ UNCHANGED <<cas, operatorErrors, config, avail, built, procs, versions>>

Images == {caImage, "example.com/other:latest"}

\* the store call that fails during one Handle, if any
Failures == {"none", "create", "get", "update"}

Next ==
    \/ \E ca \in cas, deleted \in BOOLEAN, fail \in Failures :
           HandleEvent(ca, deleted, fail)
    \/ \E ca \in cas, spec \in CASpecs : UpdateCA(ca, spec)
    \/ \E d \in store, image \in Images : ExternalSetImage(d, image)
    \/ \E d \in store, n \in 1..MaxReplicas : ExternalScale(d, n)
    \/ \E d \in store : ExternalDelete(d)

Spec == Init /\ [][Next]_vars

----------------------------------------------------------------------------
(* The availability predicate *)

\* the stored workloads at most in the availability model
MaxWorkloads == 1

\* the release.openshift.io/version annotation equals the configured version
ReleaseVersionMatches(dep, version) == dep.releaseVersion = Some(version)

\* the workload has at least one available replica
DeploymentAvailable(dep) == dep.availableReplicas >= 1

\* the ClusterAutoscaler resources with the configured name and namespace
ConfiguredCAs(cfg, crs) ==
    {ca \in crs : ca.name = cfg.name /\ ca.namespace = cfg.namespace}

\* the workloads with the name derived from the configured name, in the
\* configured namespace
ConfiguredWorkloads(cfg, st) ==
    {d \in st : d.name = DeploymentName(cfg.name) /\ d.namespace = cfg.namespace}

\* fetching the ClusterAutoscaler; fail: the fetch the store fails, if any
GetCA(cfg, crs, fail) ==
    IF fail = "getCA" THEN "Internal"
    ELSE IF ConfiguredCAs(cfg, crs) = {} THEN "NotFound"
    ELSE Nil

\* fetching the workload
GetWorkload(cfg, st, fail) ==
    IF fail = "getDeployment" THEN "Internal"
    ELSE IF ConfiguredWorkloads(cfg, st) = {} THEN "NotFound"
    ELSE Nil

\* mutant: a missing ClusterAutoscaler is reported as not available
NoAutoscalerResult_False == FALSE

\* TestAvailableAndUpdated case 2: no ClusterAutoscaler to wait for
NoAutoscalerResult == TRUE

\* the fetched workload is available and of the configured release
WorkloadCurrent(dep, version) ==
    ReleaseVersionMatches(dep, version) /\ DeploymentAvailable(dep)

\* Reconciler.AvailableAndUpdated: ok, the error, and the fetches made
AvailableAndUpdated(cfg, crs, st, fail) ==
    LET caErr  == GetCA(cfg, crs, fail)
        depErr == GetWorkload(cfg, st, fail)
        dep    == CHOOSE d \in ConfiguredWorkloads(cfg, st) : TRUE
    IN  IF IsNotFound(caErr)
        THEN [ ok |-> NoAutoscalerResult, err |-> Nil,
               calls |-> << Call("getCA", caErr) >> ]
        ELSE IF caErr # Nil
        THEN [ ok |-> FALSE, err |-> caErr,
               calls |-> << Call("getCA", caErr) >> ]
        ELSE IF IsNotFound(depErr)
        THEN [ ok |-> FALSE, err |-> Nil,
               calls |-> << Call("getCA", caErr), Call("getDeployment", depErr) >> ]
        ELSE IF depErr # Nil
        THEN [ ok |-> FALSE, err |-> depErr,
               calls |-> << Call("getCA", caErr), Call("getDeployment", depErr) >> ]
        ELSE [ ok |-> WorkloadCurrent(dep, cfg.releaseVersion), err |-> Nil,
               calls |-> << Call("getCA", caErr), Call("getDeployment", depErr) >> ]

\* the fetch that the store fails during one AvailableAndUpdated, if any
FetchFailures == {"none", "getCA", "getDeployment"}

\* SetConfig at start-up: any name, namespace and release version
InitAvail ==
    /\ store = {}
    /\ cas = {}
    /\ last = <<>>
    /\ operatorErrors = RegisterOperatorMetrics
    /\ config \in { NewConfig(n, ns, v) :
                      n \in CANames, ns \in {WatchNamespace}, v \in ReleaseVersions }
    /\ avail = <<>>
    /\ built = <<>>
    /\ procs = <<>>
    /\ versions = {}

\* A ClusterAutoscaler is created.
CreateCA(name, ns) ==
    /\ \A ca \in cas : ~(ca.name = name /\ ca.namespace = ns)
    /\ cas' = cas \cup {NewClusterAutoscaler(name, ns, EmptySpec)}
    /\ avail' = <<>>
    /\ UNCHANGED <<store, last, operatorErrors, config, built, procs, versions>>

\* A ClusterAutoscaler is deleted.
DeleteCA(ca) ==
    /\ cas' = cas \ {ca}
    /\ avail' = <<>>
    /\ UNCHANGED <<store, last, operatorErrors, config, built, procs, versions>>

\* A workload of release `version` is rolled out under the name derived from
\* `name`, replacing the one stored under that name, with no replica available yet.
Rollout(name, ns, version) ==
    LET dep == [autoscalerDeployment(NewClusterAutoscaler(name, ns, EmptySpec))
                  EXCEPT !.releaseVersion = Some(version)]
    IN  /\ dep \notin store
        /\ Cardinality((store \ Stored(store, dep)) \cup {dep}) <= MaxWorkloads
        /\ store' = (store \ Stored(store, dep)) \cup {dep}
        /\ avail' = <<>>
        /\ UNCHANGED <<cas, last, operatorErrors, config, built, procs, versions>>

\* The status of a workload reports n available replicas.
SetAvailable(d, n) ==
    /\ d.availableReplicas # n
    /\ store' = (store \ {d}) \cup {[d EXCEPT !.availableReplicas = n]}
    /\ avail' = <<>>
    /\ UNCHANGED <<cas, last, operatorErrors, config, built, procs, versions>>

\* A workload is removed.
RemoveWorkload(d) ==
    /\ store' = store \ {d}
    /\ avail' = <<>>
    /\ UNCHANGED <<cas, last, operatorErrors, config, built, procs, versions>>

\* AvailableAndUpdated is called.
Query(fail) ==
    /\ avail' = << AvailableAndUpdated(config, cas, store, fail) >>
    /\ UNCHANGED <<store, cas, last, operatorErrors, config, built, procs, versions>>

NextAvail ==
    \/ \E n \in CANames, ns \in Namespaces : CreateCA(n, ns)
    \/ \E ca \in cas : DeleteCA(ca)
    \/ \E n \in CANames, ns \in Namespaces, v \in ReleaseVersions : Rollout(n, ns, v)
    \/ \E d \in store, n \in 0..MaxAvailable : SetAvailable(d, n)
    \/ \E d \in store : RemoveWorkload(d)
    \/ \E fail \in FetchFailures : Query(fail)

SpecAvail == InitAvail /\ [][NextAvail]_vars

----------------------------------------------------------------------------
(* The Builder applied to a range of configuration resources *)

\* a ResourceLimits block lists at most MaxGPUs GPU limits
MaxGPUs == 1

GPULimits == { [type |-> "nvidia.com/gpu", min |-> 4, max |-> 8],
               [type |-> "amd.com/gpu",    min |-> 0, max |-> 2] }

RECURSIVE SeqsUpTo(_, _)
SeqsUpTo(S, n) ==
    IF n = 0 THEN { <<>> }
    ELSE SeqsUpTo(S, n - 1)
         \cup { Append(q, x) : q \in {r \in SeqsUpTo(S, n - 1) : Len(r) = n - 1}, x \in S }

\* every optional field unset, set to the tests' value, or (where a zero value
\* exists) set to zero
BuilderSpecs ==
    [ maxPodGracePeriod    : {None, Some(0), Some(60)},
      podPriorityThreshold : {None, Some(-10)},
      resourceLimits       :
          {None} \cup { Some(rl) : rl \in
              [ maxNodesTotal : {None, Some(100)},
                cores         : {None, Some([min |-> 16, max |-> 32])},
                memory        : {None, Some([min |-> 32, max |-> 64])},
                gpus          : SeqsUpTo(GPULimits, MaxGPUs) ] },
      scaleDown            :
          {None} \cup { Some(sd) : sd \in
              [ enabled       : BOOLEAN,
                delayAfterAdd : {None, Some("60s")},
                unneededTime  : {None, Some("10s")} ] } ]

InitBuilder ==
    /\ store = {}
    /\ cas \in { {NewClusterAutoscaler(n, WatchNamespace, spec)} :
                    n \in CANames, spec \in BuilderSpecs }
    /\ last = <<>>
    /\ operatorErrors = RegisterOperatorMetrics
    /\ config = NewConfig("a", WatchNamespace, "test-1")
    /\ avail = <<>>
    /\ built = <<>>
    /\ procs = <<>>
    /\ versions = {}

\* The Builder is applied to a resource, as Handle does before it calls the store.
Build(ca) ==
    /\ built' = << [ ca      |-> ca,
                     podSpec |-> autoscalerPodSpec(ca),
                     dep     |-> autoscalerDeployment(ca) ] >>
    /\ UNCHANGED <<store, cas, last, operatorErrors, config, avail, procs, versions>>

NextBuilder == \E ca \in cas : Build(ca)

SpecBuilder == InitBuilder /\ [][NextBuilder]_vars

----------------------------------------------------------------------------
(* Concurrent Handle invocations against a store with atomic create and
   version-checked update *)

\* the Handle invocations that run concurrently
NumHandlers == 2

Handlers == 1..NumHandlers

\* the resourceVersion the store holds for the key of obj (0: not stored)
VersionOf(vs, obj) ==
    IF \E e \in vs : e[1] = Key(obj)
    THEN (CHOOSE e \in vs : e[1] = Key(obj))[2]
    ELSE 0

SetVersion(vs, obj, n) == {e \in vs : e[1] # Key(obj)} \cup {<<Key(obj), n>>}

\* sdk.Update(dep) against a store that checks the resourceVersion the object
\* was read at (rv): an update of a stale object is rejected as a conflict
sdkUpdateChecked(st, vs, dep, rv, fail) ==
    LET r == sdkUpdate(st, dep, fail)
    IN  IF r.err = Nil /\ VersionOf(vs, dep) # rv
        THEN [err |-> "Conflict", store |-> st, versions |-> vs]
        ELSE IF r.err = Nil
        THEN [err |-> Nil, store |-> r.store,
              versions |-> SetVersion(vs, dep, rv + 1)]
        ELSE [err |-> r.err, store |-> st, versions |-> vs]

\* a Handle invocation that has not been started
IdleHandler ==
    [ pc |-> "idle", ca |-> None, dep |-> None, rv |-> 0, calls |-> <<>>, err |-> Nil ]

Return(h, calls, err) == [h EXCEPT !.pc = "done", !.calls = calls, !.err = err]

\* the invocations start against an empty store, or against the store an
\* earlier run of the operator left: the workload of the resource, created
InitConc ==
    /\ cas = { NewClusterAutoscaler("a", WatchNamespace, TestSpec) }
    /\ \E ca \in cas :
          \/ store = {} /\ versions = {}
          \/ /\ store = sdkCreate({}, autoscalerDeployment(ca), FALSE).store
             /\ versions = SetVersion({}, autoscalerDeployment(ca), 1)
    /\ last = <<>>
    /\ operatorErrors = RegisterOperatorMetrics
    /\ config = NewConfig("a", WatchNamespace, "test-1")
    /\ avail = <<>>
    /\ built = <<>>
    /\ procs = [h \in Handlers |-> IdleHandler]

\* handler.go:38-49: an event for ca reaches invocation h; a delete event
\* returns at once, any other builds the workload object
Start(h, ca, deleted) ==
    /\ procs[h].pc = "idle"
    /\ procs' = [procs EXCEPT ![h] =
                    IF IgnoreEvent(deleted)
                    THEN Return([@ EXCEPT !.ca = Some(ca)], <<>>, Nil)
                    ELSE [@ EXCEPT !.pc = "create", !.ca = Some(ca),
                                   !.dep = Some(autoscalerDeployment(ca))]]
    /\ UNCHANGED <<store, cas, last, operatorErrors, config, avail, built, versions>>

\* handler.go:50-57: sdk.Create and the test of its error
DoCreate(h, fail) ==
    LET me    == procs[h]
        r     == sdkCreate(store, Val(me.dep), fail)
        calls == Append(me.calls, Call("create", r.err))
    IN  /\ me.pc = "create"
        /\ store' = r.store
        /\ versions' = IF r.err = Nil THEN SetVersion(versions, Val(me.dep), 1)
                       ELSE versions
        /\ procs' = [procs EXCEPT ![h] =
                        IF CreateFailed(r.err)
                        THEN Return(me, calls, "failed to create autoscaler deployment")
                        ELSE IF TakeUpdatePath(r.err)
                        THEN [me EXCEPT !.pc = "get", !.calls = calls]
                        ELSE Return(me, calls, Nil)]
        /\ UNCHANGED <<cas, last, operatorErrors, config, avail, built>>

\* handler.go:66-73: sdk.Get, the test of its error and the comparison
DoGet(h, fail) ==
    LET me      == procs[h]
        r       == sdkGet(store, Val(me.dep), fail)
        calls   == Append(me.calls, Call("get", r.err))
        podSpec == autoscalerPodSpec(Val(me.ca))
    IN  /\ me.pc = "get"
        /\ procs' = [procs EXCEPT ![h] =
                        IF GetFailed(r.err)
                        THEN Return(me, calls, "failed to get autoscaler deployment")
                        ELSE IF SpecDiffers(r.obj, podSpec)
                        THEN [me EXCEPT !.pc = "update", !.calls = calls,
                                        !.dep = Some(SetPodSpec(r.obj, podSpec)),
                                        !.rv = VersionOf(versions, r.obj)]
                        ELSE Return(me, calls, Nil)]
        /\ UNCHANGED <<store, cas, last, operatorErrors, config, avail, built, versions>>

\* handler.go:75-81: sdk.Update and the test of its error
DoUpdate(h, fail) ==
    LET me    == procs[h]
        r     == sdkUpdateChecked(store, versions, Val(me.dep), me.rv, fail)
        calls == Append(me.calls, Call("update", r.err))
    IN  /\ me.pc = "update"
        /\ store' = r.store
        /\ versions' = r.versions
        /\ procs' = [procs EXCEPT ![h] =
                        IF UpdateFailed(r.err)
                        THEN Return(me, calls, "failed to update autoscaler deployment")
                        ELSE Return(me, calls, Nil)]
        /\ UNCHANGED <<cas, last, operatorErrors, config, avail, built>>

NextConc ==
    \/ \E h \in Handlers, ca \in cas, deleted \in BOOLEAN : Start(h, ca, deleted)
    \/ \E h \in Handlers, fail \in BOOLEAN : DoCreate(h, fail)
    \/ \E h \in Handlers, fail \in BOOLEAN : DoGet(h, fail)
    \/ \E h \in Handlers, fail \in BOOLEAN : DoUpdate(h, fail)
    \/ \E ca \in cas, spec \in CASpecs : UpdateCA(ca, spec)

SpecConc == InitConc /\ [][NextConc]_vars

----------------------------------------------------------------------------
(* Reading the record of the last Handle invocation *)

Handled == last # <<>>
L == last[1]

\* a step in which a Handle invocation ran: every other action empties last
HandleStep == last' # <<>>

\* the store itself failed one of the calls (already-exists and not-found are
\* answers of the store, not failures of it)
StoreFailed(calls) == \E i \in DOMAIN calls : calls[i].err = "Internal"

Issued(calls, op) == \E i \in DOMAIN calls : calls[i].op = op
Succeeded(calls, op) == \E i \in DOMAIN calls : calls[i] = Call(op, Nil)
Failed(calls, op) == \E i \in DOMAIN calls : calls[i].op = op /\ calls[i].err # Nil
NumSucceeded(calls, op) == Cardinality({i \in DOMAIN calls : calls[i] = Call(op, Nil)})

\* the update path was entered and the get succeeded
InUpdatePath(calls) ==
    /\ Len(calls) >= 2
    /\ calls[1] = Call("create", "AlreadyExists")
    /\ calls[2] = Call("get", Nil)

\* the stored workloads of a ClusterAutoscaler: those with its namespace and
\* the name cluster-autoscaler-<name>
WorkloadsFor(ca) ==
    {d \in store : d.namespace = ca.namespace
                   /\ d.name = "cluster-autoscaler-" \o ca.name}

----------------------------------------------------------------------------
(* Claims *)

\* C1: in the update path (create reported already-exists and the get
\* succeeded) an update call is issued if and only if the fetched workload's
\* pod template spec differs structurally from the freshly built pod spec.
C1_UpdateIffSpecDiffers ==
    (Handled /\ InUpdatePath(L.calls)) => (Issued(L.calls, "update") <=> ~L.same)

\* C2: a non-delete event handled right after a successful non-delete Handle of
\* the same, unchanged resource, with no other writer and no store failure in
\* between, issues no update call, and the two invocations together have at
\* most one successful create.
C2_SecondHandleIsNoOp ==
    [][ (Handled /\ ~L.deleted /\ L.err = Nil
           /\ HandleStep /\ L'.ca = L.ca /\ ~L'.deleted /\ ~StoreFailed(L'.calls))
        => /\ ~Issued(L'.calls, "update")
           /\ NumSucceeded(L.calls, "create") + NumSucceeded(L'.calls, "create") <= 1
      ]_vars

\* C3: immediately after a successful Handle of a non-delete event for
\* resource R the store holds exactly one workload for R, named
\* cluster-autoscaler-<R.name>, whose pod template spec is the Builder's
\* output for R; a pod template altered by another writer is restored.
C3_OneWorkloadWithBuiltSpec ==
    (Handled /\ ~L.deleted /\ L.err = Nil)
    => /\ Cardinality(WorkloadsFor(L.ca)) = 1
       /\ \A d \in WorkloadsFor(L.ca) : d.template.spec = autoscalerPodSpec(L.ca)

\* C3 witness: a successful Handle that found a drifted pod template and
\* wrote the built one back.
C3_Witness ==
    /\ Handled /\ ~L.deleted /\ L.err = Nil
    /\ InUpdatePath(L.calls) /\ ~L.same
    /\ Succeeded(L.calls, "update")

\* C4: when create fails with an error other than already-exists, Handle
\* returns an error and issues neither get nor update; get and update are
\* issued only after create failed with already-exists.
C4_CreateFailureIsFatal ==
    Handled =>
      /\ (Failed(L.calls, "create") /\ ~(Call("create", "AlreadyExists") = L.calls[1]))
            => (L.err # Nil /\ ~Issued(L.calls, "get") /\ ~Issued(L.calls, "update"))
      /\ (Issued(L.calls, "get") \/ Issued(L.calls, "update"))
            => L.calls[1] = Call("create", "AlreadyExists")

\* C4 witness: a Handle whose create failed with an internal store error.
C4_Witness ==
    Handled /\ L.calls # <<>> /\ L.calls[1] = Call("create", "Internal")

\* C5: in the update path, when fetching the existing workload fails, Handle
\* returns an error and issues no update call.
C5_GetFailureIsFatal ==
    (Handled /\ Failed(L.calls, "get"))
    => (L.err # Nil /\ ~Issued(L.calls, "update"))

\* C5 witness: a Handle that entered the update path and whose get failed.
C5_Witness ==
    /\ Handled /\ Len(L.calls) = 2
    /\ L.calls[1] = Call("create", "AlreadyExists")
    /\ L.calls[2] = Call("get", "Internal")

\* C6: a Handle that returns an error leaves the set of stored workloads and
\* their contents exactly as they were when it started; a Handle that returns
\* no error has created the workload, updated its pod template, or left the
\* store alone.
C6_NoPartialFailure ==
    [][ HandleStep
        => /\ L'.err # Nil => store' = store
           /\ L'.err = Nil =>
                \/ store' = store
                \/ /\ Stored(store, autoscalerDeployment(L'.ca)) = {}
                   /\ store' = store \cup {autoscalerDeployment(L'.ca)}
                \/ \E d \in Stored(store, autoscalerDeployment(L'.ca)) :
                     store' = (store \ {d})
                        \cup {[d EXCEPT !.template.spec = autoscalerPodSpec(L'.ca)]}
      ]_vars

\* C6 witness: a Handle that failed at its last call, the update.
C6_Witness ==
    /\ Handled /\ L.err # Nil
    /\ Len(L.calls) = 3 /\ L.calls[3] = Call("update", "Internal")

\* C7: handling an event whose deletion flag is set issues no store call,
\* leaves every stored workload unchanged and returns no error; no Handle
\* ever removes a workload from the store.
C7_DeleteEventIgnored ==
    [][ HandleStep
        => /\ L'.deleted => /\ store' = store
                            /\ L'.calls = <<>>
                            /\ L'.err = Nil
           /\ \A d \in store : Stored(store', d) # {}
           /\ ~Issued(L'.calls, "delete") ]_vars

\* C7 witness: a delete event was handled while the resource's workload was stored.
C7_Witness ==
    Handled /\ L.deleted /\ WorkloadsFor(L.ca) # {}

\* C8: every Handle that returns an error increases the error counter by one,
\* a Handle that succeeds leaves it unchanged, and the counter never decreases.
C8_ErrorsCounted ==
    [][ /\ operatorErrors' >= operatorErrors
        /\ HandleStep
           => operatorErrors' = operatorErrors + (IF L'.err # Nil THEN 1 ELSE 0)
      ]_vars

\* the result of the AvailableAndUpdated call that just returned
Queried == avail # <<>>
A == avail[1]

\* a workload with the expected derived name exists in the expected namespace,
\* has at least one available replica and carries the configured release version
GoodWorkload ==
    \E d \in store :
       /\ d.name = "cluster-autoscaler-" \o config.name
       /\ d.namespace = config.namespace
       /\ d.availableReplicas >= 1
       /\ d.releaseVersion = << config.releaseVersion >>

\* a ClusterAutoscaler with the configured name exists in the configured namespace
AutoscalerExists ==
    \E ca \in cas : ca.name = config.name /\ ca.namespace = config.namespace

\* C9 as stated: AvailableAndUpdated returns true only when the expected
\* workload exists, is available and carries the configured release version;
\* any violation yields false with a nil error; an error is returned only when
\* a fetch from the store fails.
C9_TrueOnlyWhenWorkloadCurrent ==
    Queried =>
      /\ A.ok => GoodWorkload
      /\ (~GoodWorkload /\ ~StoreFailed(A.calls)) => (~A.ok /\ A.err = Nil)
      /\ A.err # Nil => StoreFailed(A.calls)

\* C9 amended: AvailableAndUpdated returns true only when no ClusterAutoscaler
\* with the configured name exists in the configured namespace or the expected
\* workload exists, is available and carries the configured release version;
\* when the ClusterAutoscaler exists, any violation yields false with a nil
\* error; an error is returned only when a fetch from the store fails.
C9_TrueOnlyWhenNothingToWaitForOrCurrent ==
    Queried =>
      /\ A.ok => (~AutoscalerExists \/ GoodWorkload)
      /\ (AutoscalerExists /\ ~GoodWorkload /\ ~StoreFailed(A.calls))
            => (~A.ok /\ A.err = Nil)
      /\ A.err # Nil => (StoreFailed(A.calls) /\ ~A.ok)

\* C9 witness: the ClusterAutoscaler exists and its workload is available but
\* of a stale release; the answer is false with a nil error.
C9_Witness ==
    /\ Queried /\ AutoscalerExists /\ ~A.ok /\ A.err = Nil
    /\ \E d \in store :
          /\ d.name = "cluster-autoscaler-" \o config.name
          /\ d.namespace = config.namespace
          /\ d.availableReplicas >= 1
          /\ d.releaseVersion # << config.releaseVersion >>

----------------------------------------------------------------------------
(* Claims about reconciling a changed resource *)

NumIssued(calls, op) == Cardinality({i \in DOMAIN calls : calls[i].op = op})

\* the top-level optional fields of a ClusterAutoscalerSpec and the flags each
\* of them produces
SpecFields == {"maxPodGracePeriod", "podPriorityThreshold", "resourceLimits", "scaleDown"}

FieldFlags(f) ==
    CASE f = "maxPodGracePeriod"    -> {"--max-graceful-termination-sec"}
      [] f = "podPriorityThreshold" -> {"--expendable-pods-priority-cutoff"}
      [] f = "resourceLimits"       -> {"--max-nodes-total", "--cores-total",
                                        "--memory-total", "--gpu-total"}
      [] f = "scaleDown"            -> {"--scale-down-delay-after-add",
                                        "--scale-down-unneeded-time"}

\* the two specs differ in exactly one field
OneFieldApart(s0, s1) == Cardinality({f \in SpecFields : s0[f] # s1[f]}) = 1

ChangedField(s0, s1) == CHOOSE f \in SpecFields : s0[f] # s1[f]

\* the arguments that do not come from field f
OtherArgs(args, f) ==
    SelectSeq(args, LAMBDA a : \A fl \in FieldFlags(f) : ~HasPrefix(a, fl \o "="))

\* pod spec q differs from pod spec p only in the arguments field f produces
DiffersOnlyIn(p, q, f) ==
    /\ [q EXCEPT !.containers[1].args = <<>>] = [p EXCEPT !.containers[1].args = <<>>]
    /\ OtherArgs(q.containers[1].args, f) = OtherArgs(p.containers[1].args, f)
    /\ q.containers[1].args # p.containers[1].args

\* workload d carries the pod template built for ca when ca's spec was s0, one
\* field apart from ca's spec now
BuiltBeforeChange(d, ca, s0) ==
    /\ OneFieldApart(s0, ca.spec)
    /\ d.template.spec = autoscalerPodSpec([ca EXCEPT !.spec = s0])
    /\ d.template.spec # autoscalerPodSpec(ca)

\* C12: when the stored workload of a resource carries the pod template built
\* before one field of the resource was changed, a Handle of the changed
\* resource that meets no store failure issues exactly one update call, and
\* the stored pod template afterwards is the Builder's output for the changed
\* resource and differs from the previous one only in what that field produces.
C12_OneUpdateForOneChange ==
    [][ \A d \in store, s0 \in CASpecs :
          (HandleStep /\ ~L'.deleted /\ ~StoreFailed(L'.calls)
             /\ Key(d) = Key(autoscalerDeployment(L'.ca))
             /\ BuiltBeforeChange(d, L'.ca, s0))
          => /\ NumIssued(L'.calls, "update") = 1
             /\ \E e \in store' :
                   /\ store' = (store \ {d}) \cup {e}
                   /\ Key(e) = Key(d)
                   /\ e.template.spec = autoscalerPodSpec(L'.ca)
                   /\ DiffersOnlyIn(d.template.spec, e.template.spec,
                                    ChangedField(s0, L'.ca.spec)) ]_vars

\* C12 witness: a Handle fetched a workload carrying the pod template built
\* before one field was changed, and its update succeeded.
C12_Witness ==
    /\ Handled /\ L.err = Nil /\ IsSet(L.fetched)
    /\ \E s0 \in CASpecs : BuiltBeforeChange(Val(L.fetched), L.ca, s0)
    /\ Succeeded(L.calls, "update")

\* C15: within one Handle the store calls are a prefix of create, get, update,
\* each issued at most once: a non-delete event starts with create, get
\* follows only a create that answered already-exists, update follows only a
\* get that succeeded, and no call follows a failed one.
C15_CallsArePrefix ==
    Handled =>
      LET calls == L.calls
      IN  /\ Len(calls) <= 3
          /\ \A i \in DOMAIN calls : calls[i].op = << "create", "get", "update" >>[i]
          /\ ~L.deleted => Len(calls) >= 1
          /\ Len(calls) >= 2 => calls[1] = Call("create", "AlreadyExists")
          /\ Len(calls) >= 3 => calls[2] = Call("get", Nil)

\* C15 witness: a Handle that issued all three calls.
C15_Witness ==
    Handled /\ Len(L.calls) = 3 /\ L.calls[3].op = "update"

\* the resource owns the workload: one of its owner references carries the
\* resource's UID
OwnedBy(d, ca) ==
    \E i \in DOMAIN d.ownerReferences : d.ownerReferences[i].uid = ca.uid

\* C17: an update issued by the update path writes back the object the get
\* fetched with only its pod template spec replaced: replicas, selector,
\* labels, template labels and annotations, owner references and every other
\* field are those fetched; a failed update changes nothing.
C17_UpdateChangesOnlyPodSpec ==
    [][ (HandleStep /\ Issued(L'.calls, "update"))
        => /\ IsSet(L'.fetched)
           /\ Val(L'.fetched) \in store
           /\ IF Succeeded(L'.calls, "update")
              THEN \E e \in store' :
                      /\ store' = (store \ {Val(L'.fetched)}) \cup {e}
                      /\ [e EXCEPT !.template.spec = Val(L'.fetched).template.spec]
                            = Val(L'.fetched)
              ELSE store' = store ]_vars

\* C17 witness: an update succeeded on a workload that another writer had
\* scaled and whose pod template had drifted; the scale is still stored.
C17_Witness ==
    /\ Handled /\ Succeeded(L.calls, "update") /\ IsSet(L.fetched)
    /\ Val(L.fetched).replicas = << 2 >>
    /\ Val(L.fetched).template.spec # autoscalerPodSpec(L.ca)
    /\ \E d \in store : OwnedBy(d, L.ca) /\ d.replicas = << 2 >>

\* C18: the workload names derived from two different resource names differ,
\* and a Handle for one resource never creates, fetches or updates a workload
\* owned by another resource: such workloads are stored unchanged before and
\* after, and the object fetched is not one of them.
C18_ResourcesDoNotInterfere ==
    [][ /\ \A c1, c2 \in cas :
              c1.name # c2.name => DeploymentName(c1.name) # DeploymentName(c2.name)
        /\ HandleStep
           => /\ \A d \in store \cup store' :
                    ~OwnedBy(d, L'.ca) => (d \in store /\ d \in store')
              /\ IsSet(L'.fetched) => OwnedBy(Val(L'.fetched), L'.ca)
      ]_vars

\* C18 witness: the workload of b was updated while the workload of a, scaled
\* by another writer, is stored.
C18_Witness ==
    /\ Handled /\ L.ca.name = "b" /\ Succeeded(L.calls, "update")
    /\ \E d \in store : ~OwnedBy(d, L.ca) /\ d.replicas = << 2 >>

\* C13: however concurrent Handle invocations for one resource interleave, at
\* most one create succeeds, the store never holds two workloads under one
\* key, and an invocation whose update the store rejected as stale has
\* returned an error with that update as its only update and its last call.
C13_ConcurrentHandles ==
    /\ Cardinality({h \in DOMAIN procs : Succeeded(procs[h].calls, "create")}) <= 1
    /\ \A d1, d2 \in store : Key(d1) = Key(d2) => d1 = d2
    /\ \A h \in DOMAIN procs :
          Issued(procs[h].calls, "update") =>
             /\ NumIssued(procs[h].calls, "update") = 1
             /\ procs[h].calls[Len(procs[h].calls)].op = "update"
             /\ procs[h].pc = "done"
             /\ Failed(procs[h].calls, "update") => procs[h].err # Nil

\* C13 witness: two invocations read the same version; the update of one
\* succeeded and the update of the other was rejected as stale.
C13_Witness ==
    \E h1, h2 \in DOMAIN procs :
       /\ procs[h1].calls # <<>> /\ procs[h2].calls # <<>>
       /\ procs[h1].calls[Len(procs[h1].calls)] = Call("update", Nil)
       /\ procs[h2].calls[Len(procs[h2].calls)] = Call("update", "Conflict")
       /\ procs[h2].err # Nil

----------------------------------------------------------------------------
(* Claims about the Builder *)

Built == built # <<>>
B == built[1]

\* the argument list the built pod runs with
BuiltArgs == B.podSpec.containers[1].args

\* the arguments that set `flag`
ArgsOfFlag(args, flag) == {i \in DOMAIN args : HasPrefix(args[i], flag \o "=")}

\* `flag` occurs exactly once, with `value`, when `isSet`; not at all otherwise
FlagIff(args, flag, isSet, value) ==
    IF isSet
    THEN /\ Cardinality(ArgsOfFlag(args, flag)) = 1
         /\ \A i \in ArgsOfFlag(args, flag) : args[i] = flag \o "=" \o value
    ELSE ArgsOfFlag(args, flag) = {}

\* an optional field of an optional block (None when the block is unset)
FieldOf(block, f) == IF IsSet(block) THEN Val(block)[f] ELSE None

\* the text of an optional value (irrelevant when unset)
IntText(p) == IF IsSet(p) THEN ToString(Val(p)) ELSE ""
StrText(p) == IF IsSet(p) THEN Val(p) ELSE ""
RangeText(p) ==
    IF IsSet(p) THEN ToString(Val(p).min) \o ":" \o ToString(Val(p).max) ELSE ""

\* C11: the argument list contains the flag of an optional field, with the
\* exactly formatted value, if and only if the field is set; an unset field
\* produces no flag at all; the namespace and cloud-provider flags are always
\* present with the process-wide settings.
C11_FlagsIffFieldsSet ==
    Built =>
      LET sp   == B.ca.spec
          rl   == sp.resourceLimits
          sd   == sp.scaleDown
          gpus == IF IsSet(rl) THEN Val(rl).gpus ELSE <<>>
          args == BuiltArgs
      IN  /\ FlagIff(args, "--scale-down-delay-after-add",
                     IsSet(FieldOf(sd, "delayAfterAdd")),
                     StrText(FieldOf(sd, "delayAfterAdd")))
          /\ FlagIff(args, "--scale-down-unneeded-time",
                     IsSet(FieldOf(sd, "unneededTime")),
                     StrText(FieldOf(sd, "unneededTime")))
          /\ FlagIff(args, "--expendable-pods-priority-cutoff",
                     IsSet(sp.podPriorityThreshold), IntText(sp.podPriorityThreshold))
          /\ FlagIff(args, "--max-graceful-termination-sec",
                     IsSet(sp.maxPodGracePeriod), IntText(sp.maxPodGracePeriod))
          /\ FlagIff(args, "--cores-total",
                     IsSet(FieldOf(rl, "cores")), RangeText(FieldOf(rl, "cores")))
          /\ FlagIff(args, "--memory-total",
                     IsSet(FieldOf(rl, "memory")), RangeText(FieldOf(rl, "memory")))
          /\ FlagIff(args, "--max-nodes-total",
                     IsSet(FieldOf(rl, "maxNodesTotal")),
                     IntText(FieldOf(rl, "maxNodesTotal")))
          /\ Cardinality(ArgsOfFlag(args, "--gpu-total")) = Len(gpus)
          /\ \A k \in DOMAIN gpus :
                \E i \in DOMAIN args :
                   args[i] = "--gpu-total=" \o gpus[k].type \o ":"
                                \o ToString(gpus[k].min) \o ":" \o ToString(gpus[k].max)
          /\ FlagIff(args, "--namespace", TRUE, "test")
          /\ FlagIff(args, "--cloud-provider", TRUE, "testProvider")
          /\ sp = TestSpec =>
                \A e \in { "--scale-down-delay-after-add=60s",
                           "--scale-down-unneeded-time=10s",
                           "--expendable-pods-priority-cutoff=-10",
                           "--max-graceful-termination-sec=60",
                           "--cores-total=16:32",
                           "--max-nodes-total=100",
                           "--namespace=test",
                           "--cloud-provider=testProvider" } :
                   \E i \in DOMAIN args : args[i] = e

\* C11 witness: the Builder was applied to a resource with some optional
\* fields set and others unset.
C11_Witness ==
    /\ Built
    /\ IsSet(B.ca.spec.maxPodGracePeriod)
    /\ ~IsSet(B.ca.spec.podPriorityThreshold)
    /\ IsSet(B.ca.spec.scaleDown)
    /\ ~IsSet(Val(B.ca.spec.scaleDown).delayAfterAdd)
    /\ IsSet(Val(B.ca.spec.scaleDown).unneededTime)
    /\ ArgsOfFlag(BuiltArgs, "--scale-down-unneeded-time") # {}
    /\ ArgsOfFlag(BuiltArgs, "--scale-down-delay-after-add") = {}

\* C16: every workload object built for submission to create is named
\* cluster-autoscaler-<resource name>, lies in the resource's namespace,
\* requests one replica and carries exactly one owner reference, which names
\* the resource (name and UID) and is marked as controller.
C16_CreatedObjectShape ==
    Built =>
      /\ B.dep.name = "cluster-autoscaler-" \o B.ca.name
      /\ B.dep.namespace = B.ca.namespace
      /\ B.dep.replicas = << 1 >>
      /\ Len(B.dep.ownerReferences) = 1
      /\ B.dep.ownerReferences[1].name = B.ca.name
      /\ B.dep.ownerReferences[1].uid = B.ca.uid
      /\ B.dep.ownerReferences[1].kind = "ClusterAutoscaler"
      /\ B.dep.ownerReferences[1].controller = << TRUE >>

\* C16 witness: the workload object of resource b was built.
C16_Witness ==
    Built /\ B.ca.name = "b" /\ B.dep.name = "cluster-autoscaler-b"

============================================================================
